---- MODULE Spec2Model ----
(***************************************************************************)
(* Webhook ingestion and log pipeline of the Stripe demo servers           *)
(* (stripe-express-in-app-purchase/server.js and its twin):                *)
(*   POST /webhook : verify -> push to receivedWebhooks -> start           *)
(*                   appendWebhookLog (detached) -> trim to 100 ->         *)
(*                   switch on event.type -> 200                           *)
(*   GET  /webhook : snapshot of receivedWebhooks                          *)
(*   appendWebhookLog : mkdir -> stat -> [rename -> gzip -> unlink] ->     *)
(*                   appendFile, every filesystem call a separate step of  *)
(*                   the event loop, interleaved with other calls.         *)
(* A route handler is synchronous JavaScript: it runs to completion, so    *)
(* it is one action.  An async function is one action per awaited call.    *)
(***************************************************************************)
EXTENDS Integers, Sequences, FiniteSets, TLC

\* ------------------------------------------------------------------ bounds
HandlerRequests == 2  \* POST requests explored by Spec
MaxRequests == 2      \* POST requests explored by SpecLog and SpecSeq
MaxClock == 1         \* milliseconds the clock may advance
MaxFaults == 1        \* filesystem calls that fail for an outside reason
BurstRequests == 102  \* POST requests explored by SpecBuffer

\* ------------------------------------------------------- program constants
MAX_EVENTS == 100                    \* receivedWebhooks.length > 100
MAX_LOG_BYTES == 5 * 1024 * 1024     \* 5 MB
LineBytes == 128                     \* bytes of one JSON line with its '\n'

\* Lines of LineBytes bytes that take a file to MAX_LOG_BYTES exactly.
ThresholdLines == MAX_LOG_BYTES \div LineBytes

\* ------------------------------------------------------------ request data
\* A request body as JSON.parse sees it.  json: "malformed" does not parse,
\* "null" parses to null, "object" parses to an object with the fields below.
\* id 0 and type "undefined" stand for an absent field.  data: "absent" is no
\* data field, "noObject" is a data field without .object, "object" is a data
\* field with an .object.
Malformed == [json |-> "malformed", id |-> 0, type |-> "undefined", data |-> "absent"]
JsonNull == [json |-> "null", id |-> 0, type |-> "undefined", data |-> "absent"]

Obj(id, type, data) == [json |-> "object", id |-> id, type |-> type, data |-> data]

\* The bodies Spec sends: the scenario of the spec's section 8 (evt_1), a
\* redelivery-capable second kind, and the shapes that reach each throw.
Bodies ==
  { Malformed,
    JsonNull,
    Obj(0, "undefined", "absent"),
    Obj(1, "payment_intent.succeeded", "object"),
    Obj(1, "payment_intent.succeeded", "noObject"),
    Obj(2, "payment_intent.payment_failed", "object"),
    Obj(2, "customer.created", "noObject") }

\* The one body SpecLog sends: the log pipeline does not branch on the event.
LogBodies == { Obj(1, "payment_intent.succeeded", "object") }

\* The stripe-signature header: absent, matching the body, or not matching.
Signatures == {"none", "good", "bad"}

\* ------------------------------------------------------------------- state
VARIABLES
  webhookSecret,     \* process.env.STRIPE_WEBHOOK_SECRET is set
  receivedWebhooks,  \* the recent-events array
  pushed,            \* history: every record ever pushed, in order
  nreq,              \* POST /webhook requests handled so far
  last,              \* the last HTTP exchange on /webhook
  responses,         \* history: the status sent to each POST, by request number
  tasks,             \* the appendWebhookLog calls, pending and settled
  dirExists,         \* LOG_DIR exists
  active,            \* LOG_FILE
  rotated,           \* webhooks-<ts>.log, by label
  gz,                \* webhooks-<ts>.log.gz, by label
  initLines,         \* history: lines in LOG_FILE when the process started
  now,               \* the clock, in milliseconds
  faults,            \* filesystem calls that have failed for an outside reason
  alive              \* the process has not died of an uncaught exception

vars == << webhookSecret, receivedWebhooks, pushed, nreq, last, responses, tasks,
           dirExists, active, rotated, gz, initLines, now, faults, alive >>

fsVars == << dirExists, active, rotated, gz >>

\* ------------------------------------------------------------------- clock
\* new Date().toISOString(), as the characters that matter: the fixed prefix,
\* the separators, the millisecond field, the zone.
ToISOString(t) == << "2026-11-04T10", ":", "00", ":", "00", ".", ToString(t), "Z" >>

\* .replace(/[:.]/g, '-')
ReplaceColonsDots(s) ==
  [i \in DOMAIN s |-> IF s[i] \in {":", "."} THEN "-" ELSE s[i]]

Label(t) == ReplaceColonsDots(ToISOString(t))

Labels == { Label(t) : t \in 0..MaxClock }

\* ------------------------------------------------------------------- files
\* A file's content: the lines it held when the process started (prior, a
\* count) followed by the lines written since.  NoFile is the absent file,
\* Partial a .gz left incomplete by a failed or interrupted compression.
NoFile == [prior |-> -1, lines |-> << >>]
Partial == [prior |-> -2, lines |-> << >>]

File(prior, lines) == [prior |-> prior, lines |-> lines]

Exists(f) == f.prior >= 0

\* stat.size
Size(f) == (f.prior + Len(f.lines)) * LineBytes

LineCount(f) == IF Exists(f) THEN f.prior + Len(f.lines) ELSE 0

\* --------------------------------------------------------- POST /webhook
\* The handler's progress: the array as it stands, whether appendWebhookLog
\* has been called, the response status (0: none sent yet), the steps taken.
Ctx(buf) ==
  [buf |-> buf, event |-> Malformed, verified |-> FALSE, spawned |-> FALSE,
   status |-> 0, steps |-> << >>]

\* Mutant: a constructEvent that parses the payload without checking the
\* signature.
ConstructEventIgnoresSignature(req) == req.body.json = "malformed"

\* stripe.webhooks.constructEvent(req.body, sig, webhookSecret) throws on a
\* signature that does not match and on a payload that does not parse.
ConstructEventThrows(req) == req.sig # "good" \/ req.body.json = "malformed"

\* JSON.parse(req.body.toString()) throws on a payload that does not parse.
JsonParseThrows(req) == req.body.json = "malformed"

\* Mutant: the signature is checked whenever the secret is set, a request
\* without the header included.
ChecksSignatureSecretOnly(secret, req) == secret

\* if (webhookSecret && sig)
ChecksSignature(secret, req) == secret /\ req.sig # "none"

VerifyThrows(secret, req) ==
  IF ChecksSignature(secret, req) THEN ConstructEventThrows(req)
                                  ELSE JsonParseThrows(req)

\* catch (err) { return res.status(400).send(...) }
VerifyCatch(c) == [c EXCEPT !.status = 400, !.steps = Append(@, "reject")]

StepVerify(c, secret, req) ==
  LET c1 == [c EXCEPT !.steps = Append(@, "verify")]
  IN IF VerifyThrows(secret, req)
       THEN VerifyCatch(c1)
       ELSE [c1 EXCEPT !.event = req.body, !.verified = TRUE]

\* An exception no try block of the handler catches: Express answers 500.
Uncaught(c) == [c EXCEPT !.status = 500, !.steps = Append(@, "throw")]

\* { id: event.id, type: event.type, created: ..., data: event.data.object }
\* reads event.id of null, or .object of an undefined event.data: TypeError.
PushThrows(ev) == ev.json = "null" \/ ev.data = "absent"

BufferedRecord(ev, t) ==
  [id |-> ev.id, type |-> ev.type, created |-> ToISOString(t),
   data |-> IF ev.data = "object" THEN "object" ELSE "undefined"]

\* Mutant: a push that skips an event whose id is already in the array.
StepPushDedup(c, t) ==
  IF c.status # 0 THEN c
  ELSE IF PushThrows(c.event) THEN Uncaught(c)
  ELSE IF \E i \in DOMAIN c.buf : c.buf[i].id = c.event.id
    THEN [c EXCEPT !.steps = Append(@, "push")]
  ELSE [c EXCEPT !.buf = Append(@, BufferedRecord(c.event, t)),
                 !.steps = Append(@, "push")]

StepPush(c, t) ==
  IF c.status # 0 THEN c
  ELSE IF PushThrows(c.event) THEN Uncaught(c)
  ELSE [c EXCEPT !.buf = Append(@, BufferedRecord(c.event, t)),
                 !.steps = Append(@, "push")]

\* appendWebhookLog(event).catch(...): the call is made, nothing is awaited.
StepLog(c) ==
  IF c.status # 0 THEN c
  ELSE [c EXCEPT !.spawned = TRUE, !.steps = Append(@, "log")]

\* Mutant: splice(100), which drops the newest records instead of the oldest.
SpliceTail(buf) ==
  IF Len(buf) > MAX_EVENTS THEN SubSeq(buf, 1, MAX_EVENTS) ELSE buf

\* if (length > 100) splice(0, length - 100)
Splice(buf) ==
  IF Len(buf) > MAX_EVENTS
    THEN SubSeq(buf, Len(buf) - MAX_EVENTS + 1, Len(buf))
    ELSE buf

\* Mutant: the trim is left to a later turn of the event loop, so the handler
\* ends with the array as the push left it.
StepTrimDeferred(c) ==
  IF c.status # 0 THEN c ELSE [c EXCEPT !.steps = Append(@, "trim")]

StepTrim(c) ==
  IF c.status # 0 THEN c
  ELSE [c EXCEPT !.buf = Splice(@), !.steps = Append(@, "trim")]

\* switch (event.type): both named cases read a property of
\* event.data.object, a TypeError when there is no such object.
DispatchThrows(ev) ==
  /\ ev.type \in {"payment_intent.succeeded", "payment_intent.payment_failed"}
  /\ ev.data # "object"

StepDispatch(c) ==
  IF c.status # 0 THEN c
  ELSE IF DispatchThrows(c.event) THEN Uncaught(c)
  ELSE [c EXCEPT !.steps = Append(@, "dispatch")]

\* Mutant: the response is left to a callback of the log append, so the
\* handler ends without having answered.
StepAckDeferred(c) == c

\* res.json({ received: true })
StepAck(c) ==
  IF c.status # 0 THEN c
  ELSE [c EXCEPT !.status = 200, !.steps = Append(@, "ack")]

\* The handler, start to end.
RunHandler(buf, secret, req, t) ==
  StepAck(StepDispatch(StepTrim(StepLog(StepPush(
    StepVerify(Ctx(buf), secret, req), t)))))

\* The appendWebhookLog call a handler starts: it runs up to its first await,
\* the mkdir of ensureLogDir, which is then in flight.
NoLabel == << >>

\* seen, archives, snap, rot and appended are history: the LOG_FILE the stat saw
\* at or over the threshold and the number of .gz files there were then, the
\* content the rename moved, how far the rotation got, whether the appendFile
\* succeeded.
NewTask(n, ev) ==
  [req |-> n, ev |-> ev, pc |-> "mkdir", ts |-> NoLabel, seen |-> NoFile,
   archives |-> 0, snap |-> NoFile, rot |-> "none", appended |-> FALSE]

Exchange(method, n, req, c) ==
  [method |-> method, n |-> n, req |-> req, status |-> c.status,
   steps |-> c.steps, verified |-> c.verified, spawned |-> c.spawned,
   total |-> Len(c.buf), events |-> c.buf]

NoRequest == [sig |-> "none", body |-> Malformed]

PostWebhook(req) ==
  /\ alive
  /\ LET n == nreq + 1
         c == RunHandler(receivedWebhooks, webhookSecret, req, now)
     IN /\ nreq' = n
        /\ receivedWebhooks' = c.buf
        /\ pushed' = IF "push" \in {c.steps[i] : i \in DOMAIN c.steps}
                       THEN Append(pushed, BufferedRecord(c.event, now))
                       ELSE pushed
        /\ tasks' = IF c.spawned THEN tasks \cup {NewTask(n, c.event)} ELSE tasks
        /\ last' = [Exchange("POST", n, req, c) EXCEPT !.total = 0, !.events = << >>]
        /\ responses' = Append(responses, c.status)
  /\ UNCHANGED << webhookSecret, fsVars, initLines, now, faults, alive >>

\* ---------------------------------------------------------- GET /webhook
\* Mutant: total counts every record ever pushed.
SnapshotCounter(buf) == [total |-> Len(pushed), events |-> buf]

\* res.json({ total: receivedWebhooks.length, events: receivedWebhooks })
Snapshot(buf) == [total |-> Len(buf), events |-> buf]

GetWebhook ==
  /\ alive
  /\ LET s == Snapshot(receivedWebhooks)
     IN last' = [method |-> "GET", n |-> nreq, req |-> NoRequest, status |-> 200,
                 steps |-> << >>, verified |-> FALSE, spawned |-> FALSE,
                 total |-> s.total, events |-> s.events]
  /\ UNCHANGED << webhookSecret, receivedWebhooks, pushed, nreq, responses, tasks,
                  fsVars, initLines, now, faults, alive >>

\* ------------------------------------------------------- appendWebhookLog
\* Each awaited filesystem call is one step.  A call fails either because of
\* the files as they stand (ENOENT) or for an outside reason (permissions, a
\* full disk, an I/O error), the latter at most MaxFaults times.
SetTask(t, t2) == (tasks \ {t}) \cup {t2}

MayFail(mf) == faults < mf

Pending(t) == t.pc # "resolved" /\ t.pc # "rejected"

\* ensureLogDir: catch (err) { console.error(...) }, then the caller goes on.
EnsureLogDirCatch(t) == [t EXCEPT !.pc = "stat"]

\* fsp.mkdir(LOG_DIR, { recursive: true })
Mkdir(t, mf) ==
  /\ alive /\ t.pc = "mkdir"
  /\ \/ /\ dirExists' = TRUE
        /\ tasks' = SetTask(t, [t EXCEPT !.pc = "stat"])
        /\ UNCHANGED faults
     \/ /\ MayFail(mf)
        /\ faults' = faults + 1
        /\ tasks' = SetTask(t, EnsureLogDirCatch(t))
        /\ UNCHANGED dirExists
  /\ UNCHANGED << webhookSecret, receivedWebhooks, pushed, nreq, last, responses, active,
                  rotated, gz, initLines, now, alive >>

\* rotateLogIfNeeded: catch (err) { console.error(...) }: the rotation stops
\* where it is and appendWebhookLog goes on to build and append its entry.
RotateCatch(t) == [t EXCEPT !.pc = "append"]

\* Mutant: a strict comparison, which leaves a file of exactly MAX_LOG_BYTES
\* in place.
NeedsRotationStrict(size) == size > MAX_LOG_BYTES

\* if (stat.size >= MAX_LOG_BYTES)
NeedsRotation(size) == size >= MAX_LOG_BYTES

\* The .gz files in LOG_DIR.
Archives == Cardinality({ l \in Labels : gz[l] # NoFile })

\* Mutant: appendWebhookLog without its rotateLogIfNeeded call: the stat is
\* made and the entry is appended whatever the size.
StatNoRotation(t, mf) ==
  /\ alive /\ t.pc = "stat"
  /\ tasks' = SetTask(t, [t EXCEPT !.pc = "append"])
  /\ UNCHANGED << webhookSecret, receivedWebhooks, pushed, nreq, last, responses, fsVars,
                  initLines, now, faults, alive >>

\* fsp.stat(LOG_FILE).catch(() => null); if (!stat) return; the size test;
\* the timestamp label of the rotated name.
Stat(t, mf) ==
  /\ alive /\ t.pc = "stat"
  /\ \/ /\ ~Exists(active)
        /\ tasks' = SetTask(t, [t EXCEPT !.pc = "append"])
        /\ UNCHANGED faults
     \/ /\ Exists(active) /\ MayFail(mf)
        /\ faults' = faults + 1
        /\ tasks' = SetTask(t, [t EXCEPT !.pc = "append"])
     \/ /\ Exists(active)
        /\ tasks' = SetTask(t,
             IF NeedsRotation(Size(active))
               THEN [t EXCEPT !.pc = "rename", !.ts = Label(now), !.seen = active,
                              !.archives = Archives]
               ELSE [t EXCEPT !.pc = "append"])
        /\ UNCHANGED faults
  /\ UNCHANGED << webhookSecret, receivedWebhooks, pushed, nreq, last, responses, fsVars,
                  initLines, now, alive >>

\* fsp.rename(LOG_FILE, rotatedName): replaces a file already at rotatedName.
Rename(t, mf) ==
  /\ alive /\ t.pc = "rename"
  /\ \/ /\ ~Exists(active)
        /\ tasks' = SetTask(t, [RotateCatch(t) EXCEPT !.rot = "failed"])
        /\ UNCHANGED << active, rotated, faults >>
     \/ /\ Exists(active) /\ MayFail(mf)
        /\ faults' = faults + 1
        /\ tasks' = SetTask(t, [RotateCatch(t) EXCEPT !.rot = "failed"])
        /\ UNCHANGED << active, rotated >>
     \/ /\ Exists(active)
        /\ rotated' = [rotated EXCEPT ![t.ts] = active]
        /\ active' = NoFile
        /\ tasks' = SetTask(t, [t EXCEPT !.pc = "gzip", !.snap = active,
                                         !.rot = "renamed"])
        /\ UNCHANGED faults
  /\ UNCHANGED << webhookSecret, receivedWebhooks, pushed, nreq, last, responses, dirExists,
                  gz, initLines, now, alive >>

\* inp.pipe(gz).pipe(out) with out.on('finish', resolve) and
\* out.on('error', reject): the write stream creates or truncates gzipPath.
\* Only out has an 'error' listener: an error of the read stream (the rotated
\* file is gone, an I/O error) or of the gzip stream is an 'error' event
\* without a listener, an uncaught exception that ends the process.
Gzip(t, mf) ==
  /\ alive /\ t.pc = "gzip"
  /\ \/ /\ Exists(rotated[t.ts])
        /\ gz' = [gz EXCEPT ![t.ts] = rotated[t.ts]]
        /\ tasks' = SetTask(t, [t EXCEPT !.pc = "unlink", !.rot = "gzipped"])
        /\ UNCHANGED << faults, alive >>
     \/ /\ Exists(rotated[t.ts]) /\ MayFail(mf)
        /\ faults' = faults + 1
        /\ gz' = [gz EXCEPT ![t.ts] = Partial]
        /\ tasks' = SetTask(t, [RotateCatch(t) EXCEPT !.rot = "failed"])
        /\ UNCHANGED alive
     \/ /\ Exists(rotated[t.ts]) /\ MayFail(mf)
        /\ faults' = faults + 1
        /\ gz' = [gz EXCEPT ![t.ts] = Partial]
        /\ alive' = FALSE
        /\ UNCHANGED tasks
     \/ /\ ~Exists(rotated[t.ts])
        /\ \E g \in {gz[t.ts], Partial} : gz' = [gz EXCEPT ![t.ts] = g]
        /\ alive' = FALSE
        /\ UNCHANGED << tasks, faults >>
  /\ UNCHANGED << webhookSecret, receivedWebhooks, pushed, nreq, last, responses, dirExists,
                  active, rotated, initLines, now >>

\* Mutant: the unlink is given a path that is not the rotated file's.
UnlinkedOther(ts) == rotated

\* LOG_DIR's rotated files once rotatedName is unlinked.
Unlinked(ts) == [rotated EXCEPT ![ts] = NoFile]

\* fsp.unlink(rotatedName).catch(() => {})
Unlink(t, mf) ==
  /\ alive /\ t.pc = "unlink"
  /\ \/ /\ rotated' = Unlinked(t.ts)
        /\ tasks' = SetTask(t, [t EXCEPT !.pc = "append", !.rot = "unlinked"])
        /\ UNCHANGED faults
     \/ /\ Exists(rotated[t.ts]) /\ MayFail(mf)
        /\ faults' = faults + 1
        /\ tasks' = SetTask(t, [t EXCEPT !.pc = "append", !.rot = "kept"])
        /\ UNCHANGED rotated
  /\ UNCHANGED << webhookSecret, receivedWebhooks, pushed, nreq, last, responses, dirExists,
                  active, gz, initLines, now, alive >>

\* The line: JSON.stringify({ receivedAt, id, type, payload }) + '\n'.  req,
\* the number of the request that made the call, tells the lines apart.
Entry(t, time) ==
  [req |-> t.req, receivedAt |-> ToISOString(time), id |-> t.ev.id,
   type |-> t.ev.type,
   payload |-> IF t.ev.data = "object" THEN "object" ELSE "undefined"]

\* appendWebhookLog: catch (err) { console.error(...) }: the promise resolves.
AppendWebhookLogCatch(t) == [t EXCEPT !.pc = "resolved"]

\* Mutant: an append that writes the line again (a retry after a write that
\* had gone through).
AppendFileTwice(f, line) ==
  IF Exists(f) THEN File(f.prior, f.lines \o << line, line >>)
               ELSE File(0, << line, line >>)

\* What appendFile leaves at LOG_FILE: the file, created if absent, with the
\* line at its end.
AppendFile(f, line) ==
  IF Exists(f) THEN File(f.prior, Append(f.lines, line)) ELSE File(0, << line >>)

\* fsp.appendFile(LOG_FILE, line, 'utf8')
AppendLine(t, mf) ==
  /\ alive /\ t.pc = "append"
  /\ \/ /\ ~dirExists
        /\ tasks' = SetTask(t, AppendWebhookLogCatch(t))
        /\ UNCHANGED << active, faults >>
     \/ /\ dirExists /\ MayFail(mf)
        /\ faults' = faults + 1
        /\ tasks' = SetTask(t, AppendWebhookLogCatch(t))
        /\ UNCHANGED active
     \/ /\ dirExists
        /\ active' = AppendFile(active, Entry(t, now))
        /\ tasks' = SetTask(t, [t EXCEPT !.pc = "resolved", !.appended = TRUE])
        /\ UNCHANGED faults
  /\ UNCHANGED << webhookSecret, receivedWebhooks, pushed, nreq, last, responses, dirExists,
                  rotated, gz, initLines, now, alive >>

TaskStep(t, mf) ==
  \/ Mkdir(t, mf)
  \/ Stat(t, mf)
  \/ Rename(t, mf)
  \/ Gzip(t, mf)
  \/ Unlink(t, mf)
  \/ AppendLine(t, mf)

\* ------------------------------------------------------------------- clock
Tick ==
  /\ alive /\ now < MaxClock
  /\ now' = now + 1
  /\ UNCHANGED << webhookSecret, receivedWebhooks, pushed, nreq, last, responses, tasks,
                  fsVars, initLines, faults, alive >>

\* ----------------------------------------------------------- specification
NoExchange ==
  [method |-> "none", n |-> 0, req |-> NoRequest, status |-> 0, steps |-> << >>,
   verified |-> FALSE, spawned |-> FALSE, total |-> 0, events |-> << >>]

\* The log directory a starting process may find: none, an empty directory,
\* or a LOG_FILE a previous run left one line short of the threshold or at it.
InitFiles == { NoFile, File(ThresholdLines - 1, << >>), File(ThresholdLines, << >>) }

Init ==
  /\ webhookSecret \in BOOLEAN
  /\ receivedWebhooks = << >>
  /\ pushed = << >>
  /\ nreq = 0
  /\ last = NoExchange
  /\ responses = << >>
  /\ tasks = {}
  /\ dirExists \in BOOLEAN
  /\ active \in IF dirExists THEN InitFiles ELSE { NoFile }
  /\ rotated = [l \in Labels |-> NoFile]
  /\ gz = [l \in Labels |-> NoFile]
  /\ initLines = LineCount(active)
  /\ now = 0
  /\ faults = 0
  /\ alive = TRUE

Requests(bodies) == [sig : Signatures, body : bodies]

\* Spec: the handlers under every request shape, each appendWebhookLog call
\* running over a filesystem whose calls fail only for the files as they are.
Next ==
  \/ \E req \in Requests(Bodies) : nreq < HandlerRequests /\ PostWebhook(req)
  \/ GetWebhook
  \/ \E t \in tasks : TaskStep(t, 0)

Spec == Init /\ [][Next]_vars

\* SpecLog: the log pipeline under concurrent calls, outside failures and a
\* moving clock, every request carrying the same well-formed event, unsigned,
\* to a server without a webhook secret (the pipeline reads neither).
LogRequests == [sig : {"none"}, body : LogBodies]

InitLog == Init /\ ~webhookSecret

NextLog ==
  \/ \E req \in LogRequests : nreq < MaxRequests /\ PostWebhook(req)
  \/ \E t \in tasks : TaskStep(t, MaxFaults)
  \/ Tick

SpecLog == InitLog /\ [][NextLog]_vars

\* SpecSeq: the log pipeline with one appendWebhookLog call at a time (a
\* delivery arrives only when no call is pending), under outside failures.
NextSeq ==
  \/ \E req \in LogRequests :
       nreq < MaxRequests /\ (\A t \in tasks : ~Pending(t)) /\ PostWebhook(req)
  \/ \E t \in tasks : TaskStep(t, MaxFaults)
  \/ Tick

SpecSeq == InitLog /\ [][NextSeq]_vars

\* SpecBuffer: a burst of serially numbered deliveries (evt_1, evt_2, ...)
\* long enough to overflow the array, each delivery arriving after the log
\* append of the one before has settled.
BurstBody(n) == Obj(n, "payment_intent.succeeded", "object")

Quiescent == \A t \in tasks : ~Pending(t)

NextBuffer ==
  \/ /\ nreq < BurstRequests
     /\ Quiescent
     /\ PostWebhook([sig |-> "none", body |-> BurstBody(nreq + 1)])
  \/ GetWebhook
  \/ \E t \in tasks : TaskStep(t, 0)

SpecBuffer == Init /\ [][NextBuffer]_vars

\* ------------------------------------------------------------------ claims
Min(a, b) == IF a < b THEN a ELSE b

LastOf(seq, k) == SubSeq(seq, Len(seq) - k + 1, Len(seq))

\* C1: after N deliveries that passed verification and reached the push, the
\* array, and what GET /webhook returns, is exactly the last min(N, 100)
\* records pushed, in arrival order; past 100 its length is exactly 100.
C1_BufferHoldsLastAccepted ==
  LET k == Min(Len(pushed), 100)
  IN /\ receivedWebhooks = LastOf(pushed, k)
     /\ Len(receivedWebhooks) = k
     /\ last.method = "GET" => last.events = LastOf(pushed, k) /\ last.total = k

\* 102 deliveries were accepted, a GET shows 100 of them, evt_3 the oldest.
C1_Witness ==
  /\ Len(pushed) = 102
  /\ last.method = "GET"
  /\ Len(last.events) = 100
  /\ last.events[1].id = 3
  /\ last.events[100].id = 102

\* C2: a request that fails verification (a signature that does not match
\* while the secret is set, or a body that does not parse, in either branch) is
\* answered 400 after the verify step alone, and the array, the started log
\* appends and every file are as they were before it.
FailsVerification(secret, req) ==
  (secret /\ req.sig = "bad") \/ req.body.json = "malformed"

C2_RejectedChangesNothing ==
  [][ (nreq' = nreq + 1 /\ FailsVerification(webhookSecret, last'.req))
        => /\ last'.status = 400
           /\ responses'[nreq'] = 400
           /\ last'.steps = << "verify", "reject" >>
           /\ ~last'.spawned
           /\ UNCHANGED << receivedWebhooks, pushed, tasks, fsVars >> ]_vars

\* A delivery was accepted and buffered, then one with a wrong signature was
\* rejected.
C2_Witness ==
  /\ webhookSecret
  /\ last.method = "POST" /\ last.n = 2
  /\ last.req.sig = "bad" /\ last.req.body.json = "object"
  /\ last.status = 400
  /\ Len(receivedWebhooks) = 1
  /\ Cardinality(tasks) = 1

\* C3: every request that passes verification (a matching signature, or in
\* the branch without a check any body that parses) is answered 200, and the
\* handler answers nothing but 200 or 400.
PassesVerification(secret, req) ==
  /\ req.body.json # "malformed"
  /\ (secret /\ req.sig # "none") => req.sig = "good"

C3_VerifiedIsAcknowledged ==
  last.method = "POST" =>
    /\ PassesVerification(webhookSecret, last.req) => last.status = 200
    /\ last.status \in {200, 400}

\* C4: the 200 does not wait for the log append and does not depend on it:
\* every request whose appendWebhookLog call exists has been answered 200,
\* whether the call is still at its first step, has failed somewhere, has
\* resolved, or was cut short by the end of the process.
C4_AckIndependentOfLog ==
  \A t \in tasks : t.req <= Len(responses) /\ responses[t.req] = 200

\* One call failed its append and another is in the middle of a rotation;
\* both requests have their 200.
C4_Witness ==
  /\ \E t \in tasks : t.pc = "resolved" /\ ~t.appended /\ responses[t.req] = 200
  /\ \E t \in tasks : t.pc \in {"rename", "gzip", "unlink"} /\ responses[t.req] = 200

\* -------------------------------------------------- the log, as a whole
RECURSIVE Sum(_, _)
Sum(f, S) ==
  IF S = {} THEN 0
  ELSE LET x == CHOOSE y \in S : TRUE IN f[x] + Sum(f, S \ {x})

\* Lines of request r in file f.
CountIn(f, r) == Cardinality({ i \in DOMAIN f.lines : f.lines[i].req = r })

\* Lines of request r in the uncompressed log: LOG_FILE and the rotated files.
RotatedLines(r) ==
  UNION { { << l, i >> : i \in { j \in DOMAIN rotated[l].lines :
                                   rotated[l].lines[j].req = r } } :
          l \in Labels }

Written(r) == CountIn(active, r) + Cardinality(RotatedLines(r))

\* Lines in all archives plus the active file.
LinesOnDisk ==
  LineCount(active) + Sum([l \in Labels |-> LineCount(gz[l])], Labels)

\* Uncompressed log files in LOG_DIR: LOG_FILE and the rotated files.
Uncompressed ==
  (IF Exists(active) THEN 1 ELSE 0)
    + Cardinality({ l \in Labels : Exists(rotated[l]) })

TaskOf(r) == CHOOSE t \in tasks : t.req = r

Rotating(t) == t.pc \in {"rename", "gzip", "unlink"}

\* C5: no failure of a step of the log pipeline gets out of appendWebhookLog:
\* its promise never rejects and no error of a step is left uncaught, where it
\* would end the process under the handler and its responses.
C5_NoFailureEscapes ==
  /\ \A t \in tasks : t.pc # "rejected"
  /\ alive

\* C6: every appendWebhookLog call completes: a call that has not resolved
\* always has a next step it can take, also after a failed compression.
C6_PendingCallCanStep ==
  \A t \in tasks : Pending(t) => ENABLED TaskStep(t, MaxFaults)

\* C7: a call adds at most one line: no step but a call's own successful
\* appendFile adds a line of that call, that step puts exactly that one line
\* at the end of the active file, and after every step each call has at most
\* one line in the log, none if its append has not succeeded.
C7_StepAddsOwnLine ==
  \A t \in tasks :
    LET before == Written(t.req)
        after == Written(t.req)'
    IN after > before =>
         /\ after = before + 1
         /\ t.pc = "append"
         /\ TaskOf(t.req)'.pc = "resolved" /\ TaskOf(t.req)'.appended
         /\ Len(active'.lines) = Len(active.lines) + 1
         /\ active'.lines[Len(active'.lines)].req = t.req
         /\ SubSeq(active'.lines, 1, Len(active.lines)) = active.lines

C7_LinesPerCall ==
  \A t \in tasks :
    LET n == Written(t.req)
    IN n <= 1 /\ (~t.appended => n = 0)

C7_AtMostOneLine ==
  [][ << active, rotated >>' # << active, rotated >>
        => C7_StepAddsOwnLine /\ C7_LinesPerCall' ]_vars

\* One call appended its one line to the active file, another's append failed
\* and left none.
C7_Witness ==
  /\ \E t \in tasks : t.appended /\ CountIn(active, t.req) = 1
  /\ \E t \in tasks : t.pc = "resolved" /\ ~t.appended /\ Written(t.req) = 0
  /\ faults = 1 /\ dirExists

\* C8: once every call has completed, whatever the interleaving, the lines in
\* the archives plus the active file are the lines the log started with plus
\* one per call whose append succeeded.  Stated for runs in which no
\* filesystem call failed for an outside reason: the interleaving alone.
C8_LinesConserved ==
  (alive /\ faults = 0 /\ tasks # {} /\ \A t \in tasks : t.pc = "resolved")
    => LinesOnDisk = initLines + Cardinality({ t \in tasks : t.appended })

\* C9: what holds when a rotation that found the file at or over the threshold
\* returns: the active name is absent (or holds something else than the old
\* content), the renamed copy is gone, and exactly one new .gz exists, its
\* content the file's content before the rotation.
RotationPost(t) ==
  /\ ~Exists(active) \/ active # t.seen
  /\ ~Exists(rotated[t.ts])
  /\ gz[t.ts] = t.seen
  /\ Archives = t.archives + 1

RotationReturns(r) ==
  /\ r \in {t.req : t \in tasks}
  /\ Rotating(TaskOf(r))
  /\ TaskOf(r)'.pc = "append"

C10_AtMostOneUncompressed == Uncompressed <= 1

\* C11: rotateLogIfNeeded starts a rotation exactly when its stat finds
\* LOG_FILE present with a size at or over MAX_LOG_BYTES, a size equal to it
\* included (a stat that fails counts as an absent file); otherwise the call
\* is over after the stat and has changed no file of LOG_DIR.  Only a call
\* that saw such a file is ever at a rotation step.
StatReturns(t) == t.pc = "stat" /\ TaskOf(t.req)'.pc # "stat"

AtThreshold(f) == Exists(f) /\ Size(f) >= MAX_LOG_BYTES

IsPost == nreq' = nreq + 1

C12_VerifiesIffSecretAndHeader ==
  [][ IsPost =>
        LET req == last'.req
            parses == req.body.json # "malformed"
            signed == RunHandler(receivedWebhooks, TRUE,
                                 [req EXCEPT !.sig = "good"], now)
        IN /\ (webhookSecret /\ req.sig # "none")
                => last'.verified = (req.sig = "good" /\ parses)
           /\ ~(webhookSecret /\ req.sig # "none")
                => /\ last'.verified = parses
                   /\ last'.status = signed.status
                   /\ last'.steps = signed.steps
                   /\ last'.spawned = signed.spawned
                   /\ receivedWebhooks' = signed.buf ]_vars

\* The secret is set, a well-formed event arrives without the header and is
\* buffered, logged and acknowledged.
C12_Witness ==
  /\ last.method = "POST" /\ last.status = 200
  /\ last.req.body = Obj(1, "payment_intent.succeeded", "object")
  /\ webhookSecret /\ last.req.sig = "none"
  /\ last.verified /\ last.spawned
  /\ receivedWebhooks # << >>
  /\ receivedWebhooks[Len(receivedWebhooks)].id = 1

\* C13: no deduplication by id.  What the handler does with a delivery does
\* not depend on the ids it has seen: the response and the steps are those of
\* the same delivery arriving at an empty array.  Every delivery that passes
\* verification and carries the data the record is built from adds one record
\* of its own (the oldest leaving past 100) and starts one appendWebhookLog
\* call of its own, its id already in the array or not.
CountId(seq, i) == Cardinality({ k \in DOMAIN seq : seq[k].id = i })

CallsFor(i) == Cardinality({ t \in tasks : t.ev.id = i })

C13_NoDeduplication ==
  [][ IsPost =>
        LET req == last'.req
            i == req.body.id
            alone == RunHandler(<< >>, webhookSecret, req, now)
        IN /\ last'.status = alone.status
           /\ last'.steps = alone.steps
           /\ (PassesVerification(webhookSecret, req) /\ ~PushThrows(req.body))
                => /\ Len(pushed') = Len(pushed) + 1
                   /\ pushed'[Len(pushed')].id = i
                   /\ receivedWebhooks'[Len(receivedWebhooks')].id = i
                   /\ Len(receivedWebhooks) < MAX_EVENTS
                        => CountId(receivedWebhooks', i)
                             = CountId(receivedWebhooks, i) + 1
                   /\ Cardinality({ t \in tasks' : t.ev.id = i }) = CallsFor(i) + 1
                   /\ Cardinality(tasks') = Cardinality(tasks) + 1 ]_vars

\* evt_1 was delivered twice and acknowledged twice: two records with id 1
\* and two appendWebhookLog calls for it.
C13_Witness ==
  /\ responses = << 200, 200 >>
  /\ Len(receivedWebhooks) = 2
  /\ receivedWebhooks[1].id = 1 /\ receivedWebhooks[2].id = 1
  /\ CallsFor(1) = 2

\* C14: GET /webhook changes neither the array nor the log (the started
\* calls and every file of LOG_DIR), returns the array as it stands, and its
\* total is the number of events it returns, never more than 100.
IsGet == last'.method = "GET" /\ last' # last

C14_SnapshotReadsOnly ==
  [][ IsGet =>
        /\ UNCHANGED << receivedWebhooks, pushed, nreq, tasks, fsVars >>
        /\ last'.events = receivedWebhooks
        /\ last'.total = Len(last'.events)
        /\ last'.total <= 100 ]_vars

\* 101 events were received and logged; a GET returns total 100 and 100
\* events.
C14_Witness ==
  /\ Len(pushed) = 101
  /\ last.method = "GET"
  /\ last.total = 100 /\ Len(last.events) = 100
  /\ Quiescent /\ Cardinality({ t \in tasks : t.appended }) = 101

\* C15: every request that passes verification goes through verify, push,
\* start of the log append, dispatch and acknowledge, in that order, each
\* once (the trim, part of the buffering, aside), and is answered 200 with its
\* event the newest of the array; a GET returns every pushed event that fewer
\* than 100 later ones have followed, in its place.
NotTrim(step) == step # "trim"

C15_StepsInOrder ==
  /\ (last.method = "POST" /\ PassesVerification(webhookSecret, last.req))
       => /\ SelectSeq(last.steps, NotTrim)
               = << "verify", "push", "log", "dispatch", "ack" >>
          /\ last.status = 200
          /\ receivedWebhooks # << >>
          /\ receivedWebhooks[Len(receivedWebhooks)].id = last.req.body.id
  /\ last.method = "GET"
       => \A k \in 1..Len(pushed) :
            Len(pushed) - k < 100
              => /\ Len(last.events) > Len(pushed) - k
                 /\ last.events[Len(last.events) - (Len(pushed) - k)] = pushed[k]

\* C16: the dispatch never fails: every request whose event was pushed (and
\* whose log append was started) gets through the switch and is answered 200.
Took(step) == \E i \in DOMAIN last.steps : last.steps[i] = step

C16_DispatchNeverFails ==
  (last.method = "POST" /\ Took("push"))
    => Took("log") /\ Took("dispatch") /\ last.status = 200

\* C17: the handler has no await, so its push and its trim are one step of
\* the event loop: between two steps the array never holds more than 100
\* records, no GET returns more than 100, and every change of the array is
\* the push and trim of the one request handled in that step.
C17_PushAndTrimTogether ==
  [][ /\ Len(receivedWebhooks') <= 100
      /\ last'.method = "GET" => Len(last'.events) <= 100 /\ last'.total <= 100
      /\ receivedWebhooks' # receivedWebhooks
           => /\ nreq' = nreq + 1
              /\ Len(pushed') = Len(pushed) + 1
              /\ LET all == Append(receivedWebhooks, pushed'[Len(pushed')])
                 IN receivedWebhooks' = LastOf(all, Min(Len(all), 100)) ]_vars

\* The array is full, another delivery has just been handled while a GET may
\* come at any point of its log append: the GET shows 100 events, the log
\* call of the last delivery still in flight.
C17_Witness ==
  /\ Len(pushed) = 102
  /\ last.method = "GET" /\ last.total = 100
  /\ last.events[100].id = 102
  /\ \E t \in tasks : t.req = 102 /\ Pending(t) /\ t.pc # "mkdir"

\* C18: a failure of an earlier step of appendWebhookLog does not abort the
\* later ones: a call whose mkdir, stat, rename or compression failed still
\* goes on to its appendFile, so no call is ever left short of its append
\* attempt by a failure, and a call whose rotation failed is at the append
\* or past it.
C18_FailureDoesNotAbort ==
  /\ \A t \in tasks : t.rot = "failed" => t.pc \in {"append", "resolved"}
  /\ \A t \in tasks : (faults > 0 /\ Pending(t)) => alive

\* C19: with one call at a time and no failing step, every line is appended
\* after its call's rotation check, to an active file that is absent or below
\* MAX_LOG_BYTES at that moment; the line of a call that rotated is the first
\* line of the fresh active file and is never in the archive the call made.
Appends(t) == t.pc = "append" /\ TaskOf(t.req)'.appended

C19_RotationPrecedesAppend ==
  [][ \A t \in tasks :
        /\ Appends(t) =>
             /\ ~Exists(active) \/ Size(active) < MAX_LOG_BYTES
             /\ active'.lines[Len(active'.lines)].req = t.req
             /\ NeedsRotation(Size(t.seen)) =>
                  /\ t.rot = "unlinked"
                  /\ active'.prior = 0 /\ Len(active'.lines) = 1
                  /\ gz[t.ts] = t.seen
        /\ \A l \in Labels :
             t.ts = l => /\ CountIn(gz'[l], t.req) = 0
                         /\ CountIn(rotated'[l], t.req) = 0 ]_vars

\* The first call appended to a file one line short of the threshold; the
\* second found it at the threshold, archived it with the first call's line,
\* and its own line is alone in the fresh active file.
C19_Witness ==
  \E t \in tasks :
    /\ t.rot = "unlinked" /\ t.appended
    /\ Len(t.seen.lines) = 1 /\ t.seen.lines[1].req # t.req
    /\ gz[t.ts] = t.seen
    /\ active.prior = 0 /\ Len(active.lines) = 1 /\ active.lines[1].req = t.req

\* C20: no rotation overwrites or truncates an earlier rotated file or
\* archive, whatever the interleaving: a rename never lands on a rotated name
\* that exists, and a completed .gz keeps its content in every later state.
C20_NoOverwrite ==
  [][ \A l \in Labels :
        /\ Exists(gz[l]) => gz'[l] = gz[l]
        /\ (rotated'[l] # rotated[l] /\ Exists(rotated'[l]))
             => ~Exists(rotated[l]) ]_vars

\* ------------------------------------- the customer-flow server's webhook
\* stripe-express-IAP-customer-flow/server.js is a process of its own: no
\* array, no log.  It reads the same STRIPE_WEBHOOK_SECRET (endpointSecret,
\* the variable webhookSecret here); nreq, last and responses record its
\* exchanges.
\* The bodies sent to it: one that does not parse, a checkout.session.completed
\* with and without data.object (the switch reads data.object.id), an
\* invoice.payment_succeeded (it reads data.object.customer), and an event of
\* a type the switch does not name.
FlowBodies ==
  { Malformed,
    Obj(1, "checkout.session.completed", "object"),
    Obj(1, "checkout.session.completed", "noObject"),
    Obj(2, "invoice.payment_succeeded", "object"),
    Obj(3, "customer.created", "object") }

\* Content-Type: application/json (with any charset parameter), or not.
ContentTypes == {"json", "other"}

FlowRequests == [sig : Signatures, ctype : ContentTypes, body : FlowBodies]

\* app.use(express.json()) runs ahead of every route: a JSON body that does
\* not parse is answered 400 by the parser's error, the route never runs.
ExpressJsonThrows(req) == req.ctype = "json" /\ req.body.json = "malformed"

\* req.body as the route sees it.  express.json() has parsed a JSON body into
\* an object and marked the request as parsed, so bodyParser.raw passes it on
\* untouched; a body of another type is read by neither parser.  The raw
\* bytes ("buffer") never reach the route.
Payload(req) == IF req.ctype = "json" THEN "object" ELSE "empty"

\* stripe.webhooks.constructEvent(req.body, sig, endpointSecret) throws
\* without a secret, without a header, on a signature that does not match the
\* bytes it is given, and on a payload that is not the signed raw bytes.
FlowConstructEventThrows(secret, req) ==
  \/ ~secret
  \/ req.sig # "good"
  \/ Payload(req) # "buffer"
  \/ req.body.json = "malformed"

\* Mutant: the fallback of the other server, an unsigned body that parses is
\* taken as the event.
FlowVerifyWithFallback(secret, req) ==
  IF secret /\ req.sig # "none" THEN FlowConstructEventThrows(secret, req)
                                ELSE req.body.json = "malformed"

\* try { event = constructEvent(...) }: the only way to an event.
FlowVerifyThrows(secret, req) == FlowConstructEventThrows(secret, req)

FlowCtx == [event |-> Malformed, verified |-> FALSE, status |-> 0, steps |-> << >>]

\* The parser's error reaches Express's error handler: 400, the route skipped.
FlowStepParse(c, req) ==
  IF ExpressJsonThrows(req)
    THEN [c EXCEPT !.status = 400, !.steps = Append(@, "parse-error")]
    ELSE c

FlowStepVerify(c, secret, req) ==
  IF c.status # 0 THEN c
  ELSE LET c1 == [c EXCEPT !.steps = Append(@, "verify")]
       IN IF FlowVerifyThrows(secret, req)
            THEN VerifyCatch(c1)
            ELSE [c1 EXCEPT !.event = req.body, !.verified = TRUE]

\* switch (event.type): the five named cases read a property of
\* event.data.object.
FlowDispatchThrows(ev) ==
  /\ ev.type \in {"checkout.session.completed", "customer.subscription.created",
                  "customer.subscription.updated", "customer.subscription.deleted",
                  "invoice.payment_succeeded"}
  /\ ev.data # "object"

FlowStepDispatch(c) ==
  IF c.status # 0 THEN c
  ELSE IF FlowDispatchThrows(c.event) THEN Uncaught(c)
  ELSE [c EXCEPT !.steps = Append(@, "dispatch")]

FlowRunHandler(secret, req) ==
  StepAck(FlowStepDispatch(FlowStepVerify(FlowStepParse(FlowCtx, req), secret, req)))

FlowWebhook(req) ==
  /\ alive
  /\ LET n == nreq + 1
         c == FlowRunHandler(webhookSecret, req)
     IN /\ nreq' = n
        /\ last' = [method |-> "POST", n |-> n, req |-> req, status |-> c.status,
                    steps |-> c.steps, verified |-> c.verified, spawned |-> FALSE,
                    total |-> 0, events |-> << >>]
        /\ responses' = Append(responses, c.status)
  /\ UNCHANGED << webhookSecret, receivedWebhooks, pushed, tasks, fsVars, initLines,
                  now, faults, alive >>

\* SpecFlow: the customer-flow server under every request shape.
InitFlow == Init /\ ~dirExists

NextFlow == \E req \in FlowRequests : nreq < HandlerRequests /\ FlowWebhook(req)

SpecFlow == InitFlow /\ [][NextFlow]_vars

\* C21: the customer-flow webhook has no unauthenticated fallback: a request
\* is dispatched and answered 200 only after constructEvent accepted its
\* signature under the configured secret; a request without the header, with
\* a signature that does not match, or received while no secret is set, is
\* answered 400 and never reaches the switch.
C21_NoUnauthenticatedFallback ==
  last.method = "POST" =>
    /\ (last.status = 200 \/ Took("dispatch"))
         => webhookSecret /\ last.req.sig = "good" /\ last.verified
    /\ (last.req.sig \in {"none", "bad"} \/ ~webhookSecret)
         => last.status = 400 /\ ~Took("dispatch") /\ ~last.verified

\* The secret is set; two requests were answered 400, the second a
\* well-formed checkout.session.completed without the header, rejected at the
\* verify step.
C21_Witness ==
  /\ webhookSecret
  /\ last.method = "POST" /\ last.n = 2
  /\ last.req.body = Obj(1, "checkout.session.completed", "object")
  /\ last.req.ctype = "json"
  /\ last.req.sig = "none"
  /\ last.steps = << "verify", "reject" >>
  /\ last.status = 400
  /\ responses = << 400, 400 >>

====
